---------------------------- MODULE Spec2Model ----------------------------
(***************************************************************************)
(* Model of nomad-task-updates (src/main.go): the tag filter, the version  *)
(* order of hashicorp/go-version v1.4.0 as main.go uses it, the newest     *)
(* version selector, the errgroup fan-out of getImageTagMapping and the    *)
(* matching loop of run.                                                   *)
(***************************************************************************)
EXTENDS Integers, Sequences, FiniteSets, TLC

(***************************************************************************)
(* Bounds of the model.                                                    *)
(***************************************************************************)
MaxImages == 3
MaxInstances == 2
MaxTags == 3
MaxVersions == 3

VARIABLES
    pcMain,          \* position of run()
    conf,            \* conf.Images as decoded from config.toml (raw names)
    images,          \* conf.Images after parseConfigFile normalised the names
    launched,        \* number of g.Go calls made by getImageTagMapping
    pc,              \* position of each per-image goroutine
    tags,            \* each goroutine's local `tags`
    terr,            \* each goroutine's local `err`
    mu,              \* sync.Mutex: 0 when free, else the goroutine holding it
    imageTags,       \* the shared map of getImageTagMapping
    gErr,            \* errgroup's first recorded error
    ctxDone,         \* the group's context is cancelled
    failOrder,       \* history: goroutines in the order they returned an error
    fetchFailed,     \* history: goroutines whose getTags returned an error
    ret,             \* what getImageTagMapping returned
    parsedImageTags, \* what getImageVersionMapping returned
    instances,       \* what getAllInstances returned
    idx,             \* position of the matching loop
    table,           \* rows appended to the tablewriter
    stdout,          \* rows written to os.Stdout
    runErr,          \* the error run() returned
    newestArgs,      \* history: arguments getNewestVersion was called with
    fIn,             \* input of a filterTags call
    fOut,            \* its result
    nIn,             \* input of a getNewestVersion call
    nOut             \* its result

runVars == <<pcMain, conf, images, launched, pc, tags, terr, mu, imageTags,
             gErr, ctxDone, failOrder, fetchFailed, ret, parsedImageTags,
             instances, idx, table, stdout, runErr, newestArgs>>
filterVars == <<fIn, fOut>>
newestVars == <<nIn, nOut>>
vars == <<runVars, filterVars, newestVars>>

(***************************************************************************)
(* Sequences.                                                              *)
(***************************************************************************)
SeqsUpTo(S, n) == UNION {[1..k -> S] : k \in 0..n}

Range(s) == {s[k] : k \in DOMAIN s}

(***************************************************************************)
(* Versions of github.com/hashicorp/go-version v1.4.0.  A version is its   *)
(* numeric segments (NewVersion pads them to three) and its prerelease     *)
(* split at the dots; a prerelease part is numeric or alphanumeric.  Build *)
(* metadata takes no part in Compare and is left out.  Alphanumeric parts  *)
(* are ranked by `val`, which stands for Go's string order.                *)
(***************************************************************************)
Num(n) == [kind |-> "num", val |-> n]
Alpha(n) == [kind |-> "alpha", val |-> n]
EmptyPart == [kind |-> "empty", val |-> 0]

\* the alphanumeric prerelease identifiers "rc" and "x" ("rc" < "x")
idRc == Alpha(2)
idX == Alpha(3)

V(segments, pre) == [segments |-> segments, pre |-> pre]

\* a nil *version.Version
NilVersion == [segments |-> <<>>, pre |-> <<>>]

NoVersion == [segments |-> <<>>, pre |-> <<EmptyPart>>]

\* version.NewVersion: the parsed version, or NoVersion when the tag does
\* not match the version regexp (an error is returned).
NewVersion(tag) ==
    CASE tag = "1.0.0" -> V(<<1, 0, 0>>, <<>>)
      [] tag = "1.2.0" -> V(<<1, 2, 0>>, <<>>)
      [] tag = "1.2" -> V(<<1, 2, 0>>, <<>>)
      [] tag = "1.2.0.0" -> V(<<1, 2, 0, 0>>, <<>>)
      [] tag = "1.1.0-rc.1" -> V(<<1, 1, 0>>, <<idRc, Num(1)>>)
      [] tag = "1.2.0-rc" -> V(<<1, 2, 0>>, <<idRc>>)
      [] tag = "1.2.0-rc.1" -> V(<<1, 2, 0>>, <<idRc, Num(1)>>)
      [] tag = "1.2.0-rc.x" -> V(<<1, 2, 0>>, <<idRc, idX>>)
      [] tag = "2.0.0" -> V(<<2, 0, 0>>, <<>>)
      [] tag = "3.0.0" -> V(<<3, 0, 0>>, <<>>)
      [] OTHER -> NoVersion

Parses(tag) == NewVersion(tag) # NoVersion

allZero(s, from) == \A k \in from..Len(s) : s[k] = 0

RECURSIVE compareSegments(_, _, _)
compareSegments(self, other, i) ==
    IF i > Len(self) /\ i > Len(other) THEN 0
    ELSE IF i > Len(self) THEN (IF ~allZero(other, i) THEN -1 ELSE 0)
    ELSE IF i > Len(other) THEN (IF ~allZero(self, i) THEN 1 ELSE 0)
    ELSE IF self[i] = other[i] THEN compareSegments(self, other, i + 1)
    ELSE IF self[i] < other[i] THEN -1
    ELSE 1

partInt(p) == IF p.kind = "num" THEN p.val ELSE 0

comparePart(preSelf, preOther) ==
    IF preSelf = preOther THEN 0
    ELSE IF preSelf.kind = "empty"
         THEN (IF preOther.kind = "num" THEN -1 ELSE 1)
    ELSE IF preOther.kind = "empty"
         THEN (IF preSelf.kind = "num" THEN 1 ELSE -1)
    ELSE IF preSelf.kind = "num" /\ preOther.kind # "num" THEN -1
    ELSE IF preSelf.kind # "num" /\ preOther.kind = "num" THEN 1
    ELSE IF preSelf.kind # "num" /\ preOther.kind # "num"
            /\ preSelf.val > preOther.val THEN 1
    ELSE IF partInt(preSelf) > partInt(preOther) THEN 1
    ELSE -1

partAt(pre, i) == IF i <= Len(pre) THEN pre[i] ELSE EmptyPart

RECURSIVE comparePrereleases(_, _, _)
comparePrereleases(v, other, i) ==
    IF v = other THEN 0
    ELSE IF i > Len(v) /\ i > Len(other) THEN 0
    ELSE LET compare == comparePart(partAt(v, i), partAt(other, i))
         IN  IF compare # 0 THEN compare
             ELSE comparePrereleases(v, other, i + 1)

\* (*Version).Compare
Compare(v, other) ==
    IF v = other THEN 0
    ELSE IF v.segments = other.segments
         THEN IF v.pre = <<>> /\ other.pre = <<>> THEN 0
              ELSE IF v.pre = <<>> THEN 1
              ELSE IF other.pre = <<>> THEN -1
              ELSE comparePrereleases(v.pre, other.pre, 1)
    ELSE compareSegments(v.segments, other.segments, 1)

GreaterThanOrEqual(v, other) == Compare(v, other) >= 0

\* (*Version).GreaterThan
GreaterThan(v, other) == Compare(v, other) > 0

(***************************************************************************)
(* getNewestVersion: a left-to-right scan that keeps the first element and *)
(* replaces it by every later element greater than it; nil for no element. *)
(***************************************************************************)
RECURSIVE newestFrom(_, _, _)
newestFrom(versions, i, newestVersion) ==
    IF i > Len(versions) THEN newestVersion
    ELSE IF i = 1 THEN newestFrom(versions, i + 1, versions[i])
    ELSE IF GreaterThan(versions[i], newestVersion)
         THEN newestFrom(versions, i + 1, versions[i])
         ELSE newestFrom(versions, i + 1, newestVersion)

getNewestVersion(versions) == newestFrom(versions, 1, NilVersion)

(***************************************************************************)
(* Tag filter.  A TOMLRegexp is named by its pattern; MatchString is the   *)
(* set of tags of the model the compiled pattern matches.  The include and *)
(* exclude slices are only searched for some matching element, so they are *)
(* sets here.                                                              *)
(***************************************************************************)
Tags == {"1.0.0", "1.2.0", "latest", "1.1.0-rc.1"}

Regexps == {"^\\d+\\.\\d+\\.\\d+$", "rc", "^1\\."}

MatchString(re, s) ==
    CASE re = "^\\d+\\.\\d+\\.\\d+$" -> s \in {"1.0.0", "1.2.0", "2.0.0", "3.0.0"}
      [] re = "rc" -> s \in {"1.1.0-rc.1", "1.2.0-rc", "1.2.0-rc.1", "1.2.0-rc.x"}
      [] re = "^1\\." -> s \in {"1.0.0", "1.2.0", "1.2", "1.2.0.0", "1.1.0-rc.1",
                                "1.2.0-rc", "1.2.0-rc.1", "1.2.0-rc.x"}
      [] re = ".*" -> TRUE
      [] OTHER -> FALSE

isIncludedStrict(s, includes) == \E include \in includes : MatchString(include, s)

isIncluded(s, includes) ==
    IF Cardinality(includes) = 0 THEN TRUE
    ELSE \E include \in includes : MatchString(include, s)

isExcluded(s, excludes) ==
    IF Cardinality(excludes) = 0 THEN FALSE
    ELSE \E exclude \in excludes : MatchString(exclude, s)

RECURSIVE filterFrom(_, _, _, _, _)
filterFrom(tgs, include, exclude, i, filtered) ==
    IF i > Len(tgs) THEN filtered
    ELSE IF ~isIncluded(tgs[i], include)
         THEN filterFrom(tgs, include, exclude, i + 1, filtered)
    ELSE IF isExcluded(tgs[i], exclude)
         THEN filterFrom(tgs, include, exclude, i + 1, filtered)
    ELSE filterFrom(tgs, include, exclude, i + 1, Append(filtered, tgs[i]))

filterTags(tgs, include, exclude) == filterFrom(tgs, include, exclude, 1, <<>>)


(***************************************************************************)
(* Errors, maps, and the external collaborators of run().                  *)
(***************************************************************************)
Err(kind, task, name) == [kind |-> kind, task |-> task, name |-> name]

NoErr == Err("none", 0, "")

EmptyMap == [n \in {} |-> <<>>]

\* a nil Go map and a made map
NilMap == [isNil |-> TRUE, m |-> EmptyMap]
MadeMap(m) == [isNil |-> FALSE, m |-> m]

\* m[k] = v
MapPut(m, k, v) == [n \in DOMAIN m \cup {k} |-> IF n = k THEN v ELSE m[n]]

\* reference.ParseNormalizedNamed(name).Name(); "" when it returns an error
NormalizedName(name) ==
    CASE name = "app" -> "docker.io/library/app"
      [] name = "docker.io/library/app" -> "docker.io/library/app"
      [] name = "quay.io/db" -> "quay.io/db"
      [] OTHER -> ""

\* the tag list the registry serves for a repository
RegistryTags(name) ==
    CASE name = "docker.io/library/app" -> <<"1.0.0", "1.2.0", "latest", "1.1.0-rc.1">>
      [] name = "quay.io/db" -> <<"2.0.0", "1.2.0-rc">>
      [] OTHER -> <<>>

\* the [[images]] entries a config.toml of the model may hold
WatchedChoices ==
    { [Name |-> "app", Include |-> {"^\\d+\\.\\d+\\.\\d+$"}, Exclude |-> {}],
      [Name |-> "docker.io/library/app", Include |-> {"^\\d+\\.\\d+\\.\\d+$"},
       Exclude |-> {"^1\\."}],
      [Name |-> "app", Include |-> {}, Exclude |-> {}],
      [Name |-> "quay.io/db", Include |-> {}, Exclude |-> {"rc"}],
      [Name |-> "App", Include |-> {}, Exclude |-> {}] }

Image(name, tag) == [Name |-> name, Tag |-> tag]

Inst(ns, job, group, task, image) ==
    [Namespace |-> ns, Job |-> job, Group |-> group, Task |-> task, Image |-> image]

\* the running docker tasks the scheduler may report; the four identifiers
\* are numbers standing for strings in Go's string order
InstancePool ==
    { Inst(1, 1, 1, 1, Image("docker.io/library/app", "1.0.0")),
      Inst(1, 1, 1, 2, Image("docker.io/library/app", "1.2")),
      Inst(1, 2, 1, 1, Image("docker.io/library/app", "latest")),
      Inst(2, 1, 1, 1, Image("docker.io/library/web", "latest")),
      Inst(2, 1, 2, 1, Image("quay.io/db", "3.0.0")) }

\* the `less` of sortInstances: descending by namespace, job, group, task
less(a, b) ==
    IF a.Namespace # b.Namespace THEN a.Namespace > b.Namespace
    ELSE IF a.Job # b.Job THEN a.Job > b.Job
    ELSE IF a.Group # b.Group THEN a.Group > b.Group
    ELSE IF a.Task # b.Task THEN a.Task > b.Task
    ELSE FALSE

RECURSIVE sortInstances(_)
sortInstances(S) ==
    IF S = {} THEN <<>>
    ELSE LET first == CHOOSE a \in S : \A b \in S \ {a} : less(a, b)
         IN  <<first>> \o sortInstances(S \ {first})

\* (*Version).String(): the canonical text of a version of the model
String(v) ==
    CASE v = V(<<1, 0, 0>>, <<>>) -> "1.0.0"
      [] v = V(<<1, 2, 0>>, <<>>) -> "1.2.0"
      [] v = V(<<2, 0, 0>>, <<>>) -> "2.0.0"
      [] v = V(<<3, 0, 0>>, <<>>) -> "3.0.0"
      [] v = V(<<1, 1, 0>>, <<idRc, Num(1)>>) -> "1.1.0-rc.1"
      [] v = V(<<1, 2, 0>>, <<idRc>>) -> "1.2.0-rc"
      [] OTHER -> "?"

\* strconv.FormatBool
FormatBool(b) == IF b THEN "true" ELSE "false"


(***************************************************************************)
(* run(): the initial state.  config.toml holds up to MaxImages entries.   *)
(***************************************************************************)
Configs == SeqsUpTo(WatchedChoices, MaxImages)

NoStdout == [rendered |-> FALSE, rows |-> <<>>]

RunStart(c, at) ==
    /\ pcMain = at
    /\ conf = c
    /\ images = <<>>
    /\ launched = 0
    /\ pc = [i \in 1..Len(c) |-> "idle"]
    /\ tags = [i \in 1..Len(c) |-> <<>>]
    /\ terr = [i \in 1..Len(c) |-> NoErr]
    /\ mu = 0
    /\ imageTags = EmptyMap
    /\ gErr = NoErr
    /\ ctxDone = FALSE
    /\ failOrder = <<>>
    /\ fetchFailed = {}
    /\ ret = [returned |-> FALSE, map |-> NilMap, err |-> NoErr]
    /\ parsedImageTags = NilMap
    /\ instances = <<>>
    /\ idx = 0
    /\ table = <<>>
    /\ stdout = NoStdout
    /\ runErr = NoErr
    /\ newestArgs = {}

FilterIdle == fIn = [tags |-> <<>>, include |-> {}, exclude |-> {}] /\ fOut = [done |-> FALSE, out |-> <<>>]

NewestIdle == nIn = <<>> /\ nOut = [done |-> FALSE, v |-> NilVersion]

Init ==
    /\ \E c \in Configs : RunStart(c, "parseConfigFile")
    /\ FilterIdle
    /\ NewestIdle

taskVars == <<launched, pc, tags, terr, mu, imageTags, gErr, ctxDone, failOrder, fetchFailed>>
matchVars == <<instances, idx, table, newestArgs>>

(***************************************************************************)
(* `return err` of run(): main prints the error and exits; table.Render is *)
(* not reached.                                                            *)
(***************************************************************************)
ReturnErrRendered(e) ==
    /\ runErr' = e
    /\ pcMain' = "exit"
    /\ stdout' = [rendered |-> TRUE, rows |-> table]

ReturnErr(e) ==
    /\ runErr' = e
    /\ pcMain' = "exit"
    /\ UNCHANGED stdout

(***************************************************************************)
(* parseConfigFile and api.NewClient.                                      *)
(***************************************************************************)
ParseConfigFile ==
    /\ pcMain = "parseConfigFile"
    /\ \/ /\ ReturnErr(Err("config", 0, ""))
          /\ UNCHANGED images
       \/ IF \E i \in DOMAIN conf : NormalizedName(conf[i].Name) = ""
          THEN /\ ReturnErr(Err("config", 0, ""))
               /\ UNCHANGED images
          ELSE /\ images' = [i \in DOMAIN conf |->
                               [conf[i] EXCEPT !.Name = NormalizedName(conf[i].Name)]]
               /\ pcMain' = "NewClient"
               /\ UNCHANGED <<runErr, stdout>>
    /\ UNCHANGED <<conf, taskVars, ret, parsedImageTags, matchVars>>
    /\ UNCHANGED <<filterVars, newestVars>>

NewClient ==
    /\ pcMain = "NewClient"
    /\ \/ ReturnErr(Err("client", 0, ""))
       \/ /\ pcMain' = "getImageTagMapping"
          /\ UNCHANGED <<runErr, stdout>>
    /\ UNCHANGED <<conf, images, taskVars, ret, parsedImageTags, matchVars>>
    /\ UNCHANGED <<filterVars, newestVars>>

(***************************************************************************)
(* getImageTagMapping: one goroutine per watched image under an errgroup.  *)
(***************************************************************************)
\* g.Go(func() error {...}) for the next watched image
Go ==
    /\ pcMain = "getImageTagMapping"
    /\ launched < Len(images)
    /\ launched' = launched + 1
    /\ pc' = [pc EXCEPT ![launched + 1] = "getTags"]
    /\ UNCHANGED <<pcMain, conf, images, tags, terr, mu, imageTags, gErr, ctxDone,
                   failOrder, fetchFailed, ret, parsedImageTags, matchVars,
                   stdout, runErr>>
    /\ UNCHANGED <<filterVars, newestVars>>

\* the errors a getTags call may return: a transport or registry failure,
\* and a cancelled request once the group's context is done
FetchErrKinds(done) == IF done THEN {"transport", "canceled"} ELSE {"transport"}

\* tags, err := getTags(ctx, watch)
GetTags(i) ==
    /\ pc[i] = "getTags"
    /\ \/ /\ tags' = [tags EXCEPT ![i] = filterTags(RegistryTags(images[i].Name),
                                                   images[i].Include, images[i].Exclude)]
          /\ pc' = [pc EXCEPT ![i] = "Lock"]
          /\ UNCHANGED <<terr, fetchFailed>>
       \/ \E kind \in FetchErrKinds(ctxDone) :
            /\ terr' = [terr EXCEPT ![i] = Err(kind, i, images[i].Name)]
            /\ fetchFailed' = fetchFailed \cup {i}
            /\ pc' = [pc EXCEPT ![i] = "return err"]
            /\ UNCHANGED tags
    /\ UNCHANGED <<pcMain, conf, images, launched, mu, imageTags, gErr, ctxDone,
                   failOrder, ret, parsedImageTags, matchVars, stdout, runErr>>
    /\ UNCHANGED <<filterVars, newestVars>>

\* errgroup: g.errOnce.Do(func() { g.err = err; g.cancel() })
errOnceLast(err, e) == e

errOnceDo(err, e) == IF err = NoErr THEN e ELSE err

\* if err != nil { return err }: the goroutine ends, the group records the
\* error if it is the first and cancels the context
TaskReturnErr(i) ==
    /\ pc[i] = "return err"
    /\ gErr' = errOnceDo(gErr, terr[i])
    /\ ctxDone' = TRUE
    /\ failOrder' = Append(failOrder, i)
    /\ pc' = [pc EXCEPT ![i] = "done"]
    /\ UNCHANGED <<pcMain, conf, images, launched, tags, terr, mu, imageTags,
                   fetchFailed, ret, parsedImageTags, matchVars, stdout, runErr>>
    /\ UNCHANGED <<filterVars, newestVars>>

\* mu.Lock() returns only when the mutex is free
lockFree(m) == m = 0

Lock(i) ==
    /\ pc[i] = "Lock"
    /\ lockFree(mu)
    /\ mu' = i
    /\ pc' = [pc EXCEPT ![i] = "insert"]
    /\ UNCHANGED <<pcMain, conf, images, launched, tags, terr, imageTags, gErr,
                   ctxDone, failOrder, fetchFailed, ret, parsedImageTags,
                   matchVars, stdout, runErr>>
    /\ UNCHANGED <<filterVars, newestVars>>

\* imageTags[watch.Name] = tags
Insert(i) ==
    /\ pc[i] = "insert"
    /\ imageTags' = MapPut(imageTags, images[i].Name, tags[i])
    /\ pc' = [pc EXCEPT ![i] = "Unlock"]
    /\ UNCHANGED <<pcMain, conf, images, launched, tags, terr, mu, gErr, ctxDone,
                   failOrder, fetchFailed, ret, parsedImageTags, matchVars,
                   stdout, runErr>>
    /\ UNCHANGED <<filterVars, newestVars>>

\* mu.Unlock(); return nil
Unlock(i) ==
    /\ pc[i] = "Unlock"
    /\ mu' = 0
    /\ pc' = [pc EXCEPT ![i] = "done"]
    /\ UNCHANGED <<pcMain, conf, images, launched, tags, terr, imageTags, gErr,
                   ctxDone, failOrder, fetchFailed, ret, parsedImageTags,
                   matchVars, stdout, runErr>>
    /\ UNCHANGED <<filterVars, newestVars>>

wgSomeDone(pcs) == \E i \in DOMAIN pcs : pcs[i] = "done"

\* g.wg.Wait(): every goroutine of the group has ended
wgAllDone(pcs) == \A i \in DOMAIN pcs : pcs[i] = "done"

waitReturnPartial(err, m) ==
    [returned |-> TRUE, map |-> MadeMap(m), err |-> err]

\* if err := g.Wait(); err != nil { return nil, err }; return imageTags, nil
waitReturn(err, m) ==
    IF err # NoErr
    THEN [returned |-> TRUE, map |-> NilMap, err |-> err]
    ELSE [returned |-> TRUE, map |-> MadeMap(m), err |-> NoErr]

Wait ==
    /\ pcMain = "getImageTagMapping"
    /\ launched = Len(images)
    /\ wgAllDone(pc)
    /\ ctxDone' = TRUE
    /\ ret' = waitReturn(gErr, imageTags)
    /\ pcMain' = "getImageVersionMapping"
    /\ UNCHANGED <<conf, images, launched, pc, tags, terr, mu, imageTags, gErr,
                   failOrder, fetchFailed, parsedImageTags, matchVars, stdout, runErr>>
    /\ UNCHANGED <<filterVars, newestVars>>


(***************************************************************************)
(* getImageVersionMapping, after getImageTagMapping returned: every tag of *)
(* every image is parsed; the map is ranged over in Go's unspecified order *)
(* and the first tag that does not parse ends the call with an error.      *)
(***************************************************************************)
Unparsable(m) == {n \in DOMAIN m : \E k \in DOMAIN m[n] : ~Parses(m[n][k])}

ParseAll(m) == [n \in DOMAIN m |-> [k \in DOMAIN m[n] |-> NewVersion(m[n][k])]]

GetImageVersionMapping ==
    /\ pcMain = "getImageVersionMapping"
    /\ IF ret.err # NoErr
       THEN /\ ReturnErr(ret.err)
            /\ UNCHANGED parsedImageTags
       ELSE IF Unparsable(ret.map.m) # {}
       THEN /\ \E n \in Unparsable(ret.map.m) : ReturnErr(Err("parse", 0, n))
            /\ UNCHANGED parsedImageTags
       ELSE /\ parsedImageTags' = MadeMap(ParseAll(ret.map.m))
            /\ pcMain' = "getAllInstances"
            /\ UNCHANGED <<runErr, stdout>>
    /\ UNCHANGED <<conf, images, taskVars, ret, matchVars>>
    /\ UNCHANGED <<filterVars, newestVars>>

(***************************************************************************)
(* getAllInstances: the scheduler's running docker tasks, sorted.          *)
(***************************************************************************)
GetAllInstances ==
    /\ pcMain = "getAllInstances"
    /\ \/ /\ ReturnErr(Err("scheduler", 0, ""))
          /\ UNCHANGED <<instances, idx>>
       \/ \E S \in SUBSET InstancePool :
            /\ Cardinality(S) <= MaxInstances
            /\ instances' = sortInstances(S)
            /\ idx' = 1
            /\ pcMain' = "match"
            /\ UNCHANGED <<runErr, stdout>>
    /\ UNCHANGED <<conf, images, taskVars, ret, parsedImageTags, table, newestArgs>>
    /\ UNCHANGED <<filterVars, newestVars>>

(***************************************************************************)
(* The matching loop of run(), one instance per step.                      *)
(***************************************************************************)
updateAvailableGE(latest, current) == GreaterThanOrEqual(latest, current)

\* updateAvailable := latest.GreaterThan(current)
updateAvailableOf(latest, current) == GreaterThan(latest, current)

Row(instance, latest, current) ==
    [Namespace |-> instance.Namespace, Job |-> instance.Job,
     Group |-> instance.Group, Task |-> instance.Task,
     Image |-> instance.Image.Name,
     Latest |-> String(latest), Current |-> String(current),
     UpdateAvailable |-> FormatBool(updateAvailableOf(latest, current))]

NoRow == [Namespace |-> 0, Job |-> 0, Group |-> 0, Task |-> 0, Image |-> "",
          Latest |-> "", Current |-> "", UpdateAvailable |-> ""]

Outcome(kind, calls, row) == [kind |-> kind, calls |-> calls, row |-> row]

\* the body of the loop with the current tag parsed before the lookup
matchParseFirst(instance, versions) ==
    IF ~Parses(instance.Image.Tag) THEN Outcome("error", {}, NoRow)
    ELSE IF instance.Image.Name \notin DOMAIN versions THEN Outcome("continue", {}, NoRow)
    ELSE LET vs == versions[instance.Image.Name]
             latest == getNewestVersion(vs)
         IN  IF latest = NilVersion THEN Outcome("panic", {vs}, NoRow)
             ELSE Outcome("append", {vs}, Row(instance, latest, NewVersion(instance.Image.Tag)))

\* the body of the loop: what it does for one instance, and the arguments
\* it called getNewestVersion with.  A nil latest is dereferenced by
\* latest.GreaterThan(current): the goroutine panics.
matchInstance(instance, versions) ==
    IF instance.Image.Name \notin DOMAIN versions THEN Outcome("continue", {}, NoRow)
    ELSE LET vs == versions[instance.Image.Name]
             latest == getNewestVersion(vs)
         IN  IF ~Parses(instance.Image.Tag) THEN Outcome("error", {vs}, NoRow)
             ELSE IF latest = NilVersion THEN Outcome("panic", {vs}, NoRow)
             ELSE Outcome("append", {vs}, Row(instance, latest, NewVersion(instance.Image.Tag)))

Match ==
    /\ pcMain = "match"
    /\ idx <= Len(instances)
    /\ LET o == matchInstance(instances[idx], parsedImageTags.m)
       IN  /\ newestArgs' = newestArgs \cup o.calls
           /\ CASE o.kind = "continue" ->
                     /\ idx' = idx + 1
                     /\ UNCHANGED <<pcMain, table, runErr, stdout>>
                [] o.kind = "append" ->
                     /\ table' = Append(table, o.row)
                     /\ idx' = idx + 1
                     /\ UNCHANGED <<pcMain, runErr, stdout>>
                [] o.kind = "error" ->
                     /\ ReturnErr(Err("current", 0, instances[idx].Image.Name))
                     /\ UNCHANGED <<idx, table>>
                [] OTHER ->
                     /\ pcMain' = "panic"
                     /\ UNCHANGED <<idx, table, runErr, stdout>>
    /\ UNCHANGED <<conf, images, taskVars, ret, parsedImageTags, instances>>
    /\ UNCHANGED <<filterVars, newestVars>>

\* table.Render(); return nil
Render ==
    /\ pcMain = "match"
    /\ idx > Len(instances)
    /\ stdout' = [rendered |-> TRUE, rows |-> table]
    /\ pcMain' = "exit"
    /\ UNCHANGED <<conf, images, taskVars, ret, parsedImageTags, matchVars, runErr>>
    /\ UNCHANGED <<filterVars, newestVars>>

Next ==
    \/ ParseConfigFile
    \/ NewClient
    \/ Go
    \/ \E i \in DOMAIN pc : GetTags(i)
    \/ \E i \in DOMAIN pc : TaskReturnErr(i)
    \/ \E i \in DOMAIN pc : Lock(i)
    \/ \E i \in DOMAIN pc : Insert(i)
    \/ \E i \in DOMAIN pc : Unlock(i)
    \/ Wait
    \/ GetImageVersionMapping
    \/ GetAllInstances
    \/ Match
    \/ Render

Spec == Init /\ [][Next]_vars

(***************************************************************************)
(* filterTags on its own: any tag list of up to MaxTags tags (repeats      *)
(* allowed) and any include and exclude sets.                              *)
(***************************************************************************)
InitFilter ==
    /\ RunStart(<<>>, "off")
    /\ NewestIdle
    /\ fIn \in [tags : SeqsUpTo(Tags, MaxTags), include : SUBSET Regexps,
                exclude : SUBSET Regexps]
    /\ fOut = [done |-> FALSE, out |-> <<>>]

FilterCall ==
    /\ ~fOut.done
    /\ fOut' = [done |-> TRUE, out |-> filterTags(fIn.tags, fIn.include, fIn.exclude)]
    /\ UNCHANGED <<fIn, runVars, newestVars>>

NextFilter == FilterCall

SpecFilter == InitFilter /\ [][NextFilter]_vars

(***************************************************************************)
(* getNewestVersion on its own: any sequence of up to MaxVersions versions *)
(* that NewVersion returns for the tags below.                             *)
(***************************************************************************)
VersionTags == {"1.0.0", "1.2.0", "1.2.0.0", "1.2.0-rc", "1.2.0-rc.1", "1.2.0-rc.x"}

Versions == {NewVersion(t) : t \in VersionTags}

InitNewest ==
    /\ RunStart(<<>>, "off")
    /\ FilterIdle
    /\ nIn \in SeqsUpTo(Versions, MaxVersions)
    /\ nOut = [done |-> FALSE, v |-> NilVersion]

NewestCall ==
    /\ ~nOut.done
    /\ nOut' = [done |-> TRUE, v |-> getNewestVersion(nIn)]
    /\ UNCHANGED <<nIn, runVars, filterVars>>

NextNewest == NewestCall

SpecNewest == InitNewest /\ [][NextNewest]_vars

(***************************************************************************)
(* Properties.                                                             *)
(***************************************************************************)

\* C1: once getImageTagMapping has returned in a run where some getTags
\* call failed, it returned an error and a nil map, getImageVersionMapping
\* returned a nil map as well, and run ends with an error: no mapping made
\* of the successful images' entries reaches the caller.
C1_FailurePropagation ==
    (ret.returned /\ fetchFailed # {}) =>
        /\ ret.err # NoErr
        /\ ret.map = NilMap
        /\ parsedImageTags = NilMap
        /\ pcMain \in {"getImageVersionMapping", "exit"}
        /\ pcMain = "exit" => runErr = ret.err

\* a fetch failed after another image's tags were already inserted, and
\* run has ended
C1_Witness ==
    /\ ret.returned
    /\ fetchFailed # {}
    /\ imageTags # EmptyMap
    /\ pcMain = "exit"

\* C2: the error the group holds, and the one getImageTagMapping returns,
\* is the error of the goroutine that was first to return an error; it is
\* the error of no goroutine that returned one later; and the context is
\* cancelled from the first failure on.
C2_FirstErrorWins ==
    /\ failOrder # <<>> => (gErr = terr[failOrder[1]] /\ ctxDone)
    /\ (ret.returned /\ failOrder # <<>>) =>
           /\ ret.err = terr[failOrder[1]]
           /\ \A k \in 2..Len(failOrder) : ret.err # terr[failOrder[k]]

\* two goroutines failed, the one launched second first, and the call
\* has returned
C2_Witness ==
    /\ ret.returned
    /\ Len(failOrder) >= 2
    /\ failOrder[1] > failOrder[2]

\* C3: getNewestVersion is never called with an empty sequence, and no nil
\* latest version is compared with a current version.
C3_NeverNewestOfEmpty ==
    /\ \A a \in newestArgs : a # <<>>
    /\ pcMain # "panic"

Watched(instance) == instance.Image.Name \in DOMAIN parsedImageTags.m

Ident(r) == <<r.Namespace, r.Job, r.Group, r.Task>>

RECURSIVE WatchedIdents(_)
WatchedIdents(insts) ==
    IF insts = <<>> THEN <<>>
    ELSE (IF Watched(Head(insts)) THEN <<Ident(Head(insts))>> ELSE <<>>)
         \o WatchedIdents(Tail(insts))

Processed == SubSeq(instances, 1, idx - 1)

\* C4: the rows appended so far are, in order, those of the processed
\* instances whose image is a key of the version mapping: an instance whose
\* image is not a key adds no row and removes none; and an error or a panic
\* of the loop is never raised at such an instance.
C4_SkipRule ==
    /\ [k \in DOMAIN table |-> Ident(table[k])] = WatchedIdents(Processed)
    /\ \A k \in DOMAIN table : \E j \in 1..(idx - 1) :
          /\ Ident(instances[j]) = Ident(table[k])
          /\ table[k].Image = instances[j].Image.Name
    /\ (runErr.kind = "current" \/ pcMain = "panic") => Watched(instances[idx])

\* the loop went past an instance of an unwatched image whose tag does not
\* parse, appended a row for another instance, and run returned nil
C4_Witness ==
    /\ pcMain = "exit"
    /\ runErr = NoErr
    /\ table # <<>>
    /\ \E j \in DOMAIN instances :
          ~Watched(instances[j]) /\ ~Parses(instances[j].Image.Tag)

\* C5: a run that ends with an error (or panics) has written nothing to
\* stdout; the table is rendered only by a run that returned nil after the
\* loop went through every instance, and it then holds every appended row.
C5_NoPartialTable ==
    /\ (runErr # NoErr \/ pcMain = "panic") => stdout = NoStdout
    /\ stdout.rendered =>
          /\ pcMain = "exit"
          /\ runErr = NoErr
          /\ idx = Len(instances) + 1
          /\ stdout.rows = table
          /\ Len(table) = Len(WatchedIdents(instances))

\* rows were appended and then an instance's current tag did not parse
C5_Witness ==
    /\ runErr.kind = "current"
    /\ table # <<>>
    /\ pcMain = "exit"

InstanceOf(row) == CHOOSE i \in Range(instances) : Ident(i) = Ident(row)

\* C6: every row's UpdateAvailable is "true" exactly when the version
\* getNewestVersion selects for the instance's image compares greater than
\* the instance's current version, and "false" when the two compare equal
\* or the current version compares greater; Latest and Current show these
\* two versions.
C6_UpdateAvailable ==
    \A k \in DOMAIN table :
        LET row == table[k]
            latest == getNewestVersion(parsedImageTags.m[row.Image])
            current == NewVersion(InstanceOf(row).Image.Tag)
        IN  /\ row.Latest = String(latest)
            /\ row.Current = String(current)
            /\ row.UpdateAvailable = "true" <=> Compare(latest, current) = 1
            /\ (Compare(latest, current) = 0 \/ Compare(current, latest) = 1)
                  => row.UpdateAvailable = "false"

\* one table holds a row of an instance behind the newest version and a
\* row of an instance whose tag, "1.2", equals the newest version, "1.2.0"
C6_Witness ==
    /\ \E k \in DOMAIN table : table[k].UpdateAvailable = "true"
    /\ \E k \in DOMAIN table :
          /\ table[k].UpdateAvailable = "false"
          /\ table[k].Latest = table[k].Current
          /\ InstanceOf(table[k]).Image.Tag # table[k].Current

Permuted(s, p) == [k \in DOMAIN s |-> s[p[k]]]

\* C7: for a non-empty sequence getNewestVersion returns one of its
\* elements, no element is greater than it, and the result for every
\* permutation of the sequence compares equal to it.
C7_NewestIsMaximum ==
    (nOut.done /\ nIn # <<>>) =>
        /\ nOut.v \in Range(nIn)
        /\ \A k \in DOMAIN nIn : ~GreaterThan(nIn[k], nOut.v)
        /\ \A p \in Permutations(DOMAIN nIn) :
              Compare(getNewestVersion(Permuted(nIn, p)), nOut.v) = 0

\* C8: the result of filterTags is the input with exactly the tags removed
\* that fail inclusion (a non-empty include set none of whose patterns
\* matches) or match an exclude pattern: the kept positions, in increasing
\* order, give the result, so nothing is reordered, added or repeated.
C8_FilterExact ==
    fOut.done =>
        LET passes(t) ==
                /\ fIn.include = {} \/ \E r \in fIn.include : MatchString(r, t)
                /\ ~\E r \in fIn.exclude : MatchString(r, t)
            kept == {k \in DOMAIN fIn.tags : passes(fIn.tags[k])}
        IN  /\ Len(fOut.out) = Cardinality(kept)
            /\ \E f \in [DOMAIN fOut.out -> kept] :
                  /\ \A a, b \in DOMAIN fOut.out : a < b => f[a] < f[b]
                  /\ \A a \in DOMAIN fOut.out : fOut.out[a] = fIn.tags[f[a]]
            /\ \A a \in DOMAIN fOut.out :
                  ~\E r \in fIn.exclude : MatchString(r, fOut.out[a])

\* a tag list with a repeated tag and a tag that matches both an include
\* and an exclude pattern; the result keeps the repeated tag twice and
\* drops the other
C8_Witness ==
    /\ fOut.done
    /\ Len(fIn.tags) = 3
    /\ \E k \in DOMAIN fIn.tags :
          /\ \E r \in fIn.include : MatchString(r, fIn.tags[k])
          /\ \E r \in fIn.exclude : MatchString(r, fIn.tags[k])
    /\ Len(fOut.out) = 2
    /\ fOut.out[1] = fOut.out[2]

\* C9: at most one goroutine holds the mutex around the insert; and once
\* getImageTagMapping has returned every goroutine it launched has ended,
\* and the map it returned is the shared map as it is now (nothing wrote
\* to it after the return).
C9_TasksJoined ==
    /\ Cardinality({i \in DOMAIN pc : pc[i] \in {"insert", "Unlock"}}) <= 1
    /\ \A i \in DOMAIN pc : pc[i] \in {"insert", "Unlock"} => mu = i
    /\ ret.returned =>
          /\ \A i \in DOMAIN pc : pc[i] = "done"
          /\ ~ret.map.isNil => ret.map.m = imageTags

\* the call returned a map that two goroutines inserted into
C9_Witness ==
    /\ ret.returned
    /\ ~ret.map.isNil
    /\ Len(images) >= 2
    /\ Cardinality(DOMAIN imageTags) >= 2

\* C10: when every fetch succeeded, the returned map has the watched names
\* as its keys and, under each watched image's name, that image's filtered
\* tag list, whatever the interleaving was.
C10_InterleavingIndependent ==
    (ret.returned /\ fetchFailed = {}) =>
        /\ ~ret.map.isNil
        /\ DOMAIN ret.map.m = {images[i].Name : i \in DOMAIN images}
        /\ \A i \in DOMAIN images :
              ret.map.m[images[i].Name] =
                 filterTags(RegistryTags(images[i].Name), images[i].Include,
                            images[i].Exclude)

=============================================================================
